---- MODULE Spec2Model ----
(***************************************************************************)
(* hardstop-patterns: the pattern evaluation engine of index.js.           *)
(*                                                                         *)
(* Strings are sequences of one-character strings, so that startsWith,     *)
(* endsWith, replace, trim and the regular-expression source text are      *)
(* computed character by character as the code computes them.              *)
(***************************************************************************)
EXTENDS Integers, Sequences, FiniteSets

(***************************************************************************)
(* Bounds of the model.                                                    *)
(***************************************************************************)
\* longest regex source enumerated by InitRegex
MaxSrcLen == 4
\* longest input string enumerated for the checks of SpecRegex
MaxInputLen == 2
\* most pattern files whose backing data is unreadable in one process
MaxCorrupt == 1
\* longest pattern list of a collection enumerated by InitMatch
MaxPatterns == 2

(***************************************************************************)
(* JavaScript string helpers.                                              *)
(***************************************************************************)
startsWith(s, c) == Len(s) > 0 /\ s[1] = c

endsWith(s, c) == Len(s) > 0 /\ s[Len(s)] = c

\* src.replace(/^\^/, ''): one leading '^' removed when present
StripLeadingCaret(s) == IF startsWith(s, "^") THEN SubSeq(s, 2, Len(s)) ELSE s

\* .replace(/\$$/, ''): one trailing '$' removed when present
StripTrailingDollar(s) == IF endsWith(s, "$") THEN SubSeq(s, 1, Len(s) - 1) ELSE s

IsSpace(c) == c \in {" ", "\t"}

RECURSIVE TrimStart(_)
TrimStart(s) == IF Len(s) > 0 /\ IsSpace(s[1]) THEN TrimStart(Tail(s)) ELSE s

RECURSIVE TrimEnd(_)
TrimEnd(s) ==
  IF Len(s) > 0 /\ IsSpace(s[Len(s)]) THEN TrimEnd(SubSeq(s, 1, Len(s) - 1)) ELSE s

\* String.prototype.trim
trim(s) == TrimEnd(TrimStart(s))

\* filePath.replace(/\\/g, '/')
normalizeSlashes(s) == [i \in 1..Len(s) |-> IF s[i] = "\\" THEN "/" ELSE s[i]]

\* canonical case of a character under the 'i' flag
\* a comparison made without the 'i' flag
ToLowerCaseSensitive(c) == c

ToLower(c) == CASE c = "A" -> "a" [] c = "B" -> "b" [] OTHER -> c

(***************************************************************************)
(* new RegExp(src, 'i') and regex.test(s), for the regular-expression      *)
(* syntax the model's pattern sources use: literal characters, identity    *)
(* escapes (\x), the assertions ^ and $, alternation |, and the groups     *)
(* ( ... ) and (?: ... ).                                                  *)
(***************************************************************************)
Tok(t, c) == [t |-> t, c |-> c]

RECURSIVE Tokenize(_)
Tokenize(src) ==
  IF Len(src) = 0 THEN <<>>
  ELSE LET h == src[1]
           rest(n) == SubSeq(src, n, Len(src))
       IN CASE h = "\\" ->
                 IF Len(src) = 1 THEN <<Tok("error", "")>>
                 ELSE <<Tok("lit", src[2])>> \o Tokenize(rest(3))
            [] h = "(" ->
                 IF Len(src) >= 2 /\ src[2] = "?"
                 THEN IF Len(src) >= 3 /\ src[3] = ":"
                      THEN <<Tok("open", "")>> \o Tokenize(rest(4))
                      ELSE <<Tok("error", "")>>
                 ELSE <<Tok("open", "")>> \o Tokenize(rest(2))
            [] h = ")" -> <<Tok("close", "")>> \o Tokenize(rest(2))
            [] h = "|" -> <<Tok("alt", "")>> \o Tokenize(rest(2))
            [] h = "^" -> <<Tok("bol", "")>> \o Tokenize(rest(2))
            [] h = "$" -> <<Tok("eol", "")>> \o Tokenize(rest(2))
            [] OTHER -> <<Tok("lit", h)>> \o Tokenize(rest(2))

\* nesting depth after the first n tokens; -1 once a ')' has no '(' to close
RECURSIVE Depth(_, _)
Depth(tk, n) ==
  IF n = 0 THEN 0
  ELSE LET d == Depth(tk, n - 1)
       IN IF d < 0 THEN d
          ELSE CASE tk[n].t = "open" -> d + 1
                 [] tk[n].t = "close" -> d - 1
                 [] OTHER -> d

\* new RegExp(src, 'i') does not throw a SyntaxError
CompilesOK(src) ==
  LET tk == Tokenize(src)
  IN /\ \A i \in 1..Len(tk) : tk[i].t # "error"
     /\ Depth(tk, Len(tk)) = 0

\* index of the ')' closing the '(' at tk[1]
MatchingClose(tk) ==
  CHOOSE k \in 2..Len(tk) :
    /\ Depth(tk, k) = 0
    /\ \A j \in 1..(k - 1) : Depth(tk, j) > 0

\* index of the first '|' outside every group, 0 when there is none
FirstTopAlt(tk) ==
  LET alts == {i \in 1..Len(tk) : tk[i].t = "alt" /\ Depth(tk, i) = 0}
  IN IF alts = {} THEN 0 ELSE CHOOSE i \in alts : \A j \in alts : i <= j

\* the positions of s a match can end at when it starts at a position of P
RECURSIVE EndsAlt(_, _, _), EndsCat(_, _, _)
EndsAlt(tk, s, P) ==
  LET a == FirstTopAlt(tk)
  IN IF a = 0 THEN EndsCat(tk, s, P)
     ELSE EndsCat(SubSeq(tk, 1, a - 1), s, P)
            \cup EndsAlt(SubSeq(tk, a + 1, Len(tk)), s, P)

EndsCat(tk, s, P) ==
  IF Len(tk) = 0 \/ P = {} THEN P
  ELSE LET h == tk[1]
       IN CASE h.t = "open" ->
                 LET k == MatchingClose(tk)
                 IN EndsCat(SubSeq(tk, k + 1, Len(tk)), s,
                            EndsAlt(SubSeq(tk, 2, k - 1), s, P))
            [] h.t = "bol" -> EndsCat(Tail(tk), s, {p \in P : p = 0})
            [] h.t = "eol" -> EndsCat(Tail(tk), s, {p \in P : p = Len(s)})
            [] OTHER ->
                 EndsCat(Tail(tk), s,
                         {p + 1 : p \in {q \in P : q < Len(s)
                                           /\ ToLower(s[q + 1]) = ToLower(h.c)}})

\* regex.test(s) for regex = new RegExp(src, 'i'): a match anywhere in s
RegexTest(src, s) ==
  LET tk == Tokenize(src)
  IN \E p \in 0..Len(s) : EndsAlt(tk, s, {p}) # {}

(***************************************************************************)
(* Values of the program.                                                  *)
(***************************************************************************)
Undefined == "undefined"

Null == "null"

\* the lazily loaded properties of module.exports, in the order preload() touches them
PreloadOrder ==
  <<"bashDangerous", "bashSafe", "readDangerous", "readSensitive", "readSafe", "meta">>

Files == {PreloadOrder[i] : i \in 1..Len(PreloadOrder)}

Collections == Files \ {"meta"}

Platforms == {"linux", "macos", "windows"}

\* values of process.platform
HostPlatforms == {"linux", "darwin", "win32"}

\* a check's input: a string, or a value of another type
Str(chars) == [type |-> "string", chars |-> chars]

NonStrings == {[type |-> t, chars |-> <<>>] : t \in {"null", "undefined", "number", "object"}}

\* a check's options argument: absent, or an object with its platform property
NoOptions == [given |-> FALSE, platform |-> Undefined]

Opt(p) == [given |-> TRUE, platform |-> p]

AllOptions == {NoOptions} \cup {Opt(p) : p \in {Undefined, "auto", Null} \cup Platforms}

\* a slot of the lazy cache that holds no object yet
NoObject == [file |-> "", gen |-> 0, json |-> [none |-> TRUE]]

\* a reference to a Pattern object: the idx-th entry of a loaded collection object
NoPattern == [file |-> "", gen |-> 0, idx |-> 0]

NoError == [wrapped |-> FALSE, filename |-> "", cause |-> ""]

VARIABLES
  disk,             \* the files of patterns/: file -> [ok, json, cause]
  hostPlatform,     \* process.platform
  loaded,           \* _bashDangerous, ..., _meta: file -> object or NoObject
  parses,           \* file -> number of objects JSON.parse has built from it
  regexCache,       \* _regexCache: object identity -> compiled sequence
  detectedPlatform, \* _detectedPlatform
  call              \* the last call made on the module and what it gave

vars == <<disk, hostPlatform, loaded, parses, regexCache, detectedPlatform, call>>

\* the identity of a loaded object
Key(obj) == <<obj.file, obj.gen>>

\* the Pattern object a reference points to, among the objects ld holds
Deref(ld, ref) == ld[ref.file].json.patterns[ref.idx]

(***************************************************************************)
(* The Pattern Store.                                                      *)
(***************************************************************************)
\* loadPatterns(filename): the parsed file, or a wrapped error thrown
\* loadPatterns with a catch that returns an empty collection
loadPatternsSwallowing(filename) ==
  IF disk[filename].ok
  THEN [threw |-> FALSE, value |-> disk[filename].json, error |-> NoError]
  ELSE [threw |-> FALSE, value |-> [match_mode |-> "search", patterns |-> <<>>],
        error |-> NoError]

\* loadPatterns reading a collection file where meta.json is asked for
loadPatternsMiswired(filename) ==
  LET read == IF filename = "meta" THEN "readSafe" ELSE filename
  IN IF disk[read].ok
     THEN [threw |-> FALSE, value |-> disk[read].json, error |-> NoError]
     ELSE [threw |-> TRUE, value |-> NoObject.json,
           error |-> [wrapped |-> TRUE, filename |-> read, cause |-> disk[read].cause]]

loadPatterns(filename) ==
  IF disk[filename].ok
  THEN [threw |-> FALSE, value |-> disk[filename].json, error |-> NoError]
  ELSE [threw |-> TRUE, value |-> NoObject.json,
        error |-> [wrapped |-> TRUE, filename |-> filename,
                   cause |-> disk[filename].cause]]

\* a getter that loads again when the file no longer holds what was loaded
GetterHotReloading(file, ld, ps) ==
  IF ld[file].gen # 0 /\ disk[file].ok /\ disk[file].json = ld[file].json
  THEN [threw |-> FALSE, value |-> ld[file], error |-> NoError,
        loaded |-> ld, parses |-> ps, reads |-> {}]
  ELSE LET r == loadPatterns(file)
           obj == [file |-> file, gen |-> ps[file] + 1, json |-> r.value]
       IN IF r.threw
          THEN [threw |-> TRUE, value |-> NoObject, error |-> r.error,
                loaded |-> ld, parses |-> ps, reads |-> {file}]
          ELSE [threw |-> FALSE, value |-> obj, error |-> NoError,
                loaded |-> [ld EXCEPT ![file] = obj],
                parses |-> [ps EXCEPT ![file] = @ + 1], reads |-> {file}]

\* a getter without the _x || : it loads on every access
GetterReloading(file, ld, ps) ==
  LET r == loadPatterns(file)
      obj == [file |-> file, gen |-> ps[file] + 1, json |-> r.value]
  IN IF r.threw
     THEN [threw |-> TRUE, value |-> NoObject, error |-> r.error,
           loaded |-> ld, parses |-> ps, reads |-> {file}]
     ELSE [threw |-> FALSE, value |-> obj, error |-> NoError,
           loaded |-> [ld EXCEPT ![file] = obj],
           parses |-> [ps EXCEPT ![file] = @ + 1], reads |-> {file}]

\* a getter that caches an empty collection when the load throws
GetterCachingFailure(file, ld, ps) ==
  IF ld[file].gen # 0
  THEN [threw |-> FALSE, value |-> ld[file], error |-> NoError,
        loaded |-> ld, parses |-> ps, reads |-> {}]
  ELSE LET r == loadPatterns(file)
           obj == [file |-> file, gen |-> ps[file] + 1,
                   json |-> IF r.threw THEN [match_mode |-> "search", patterns |-> <<>>]
                            ELSE r.value]
       IN [threw |-> r.threw, value |-> IF r.threw THEN NoObject ELSE obj,
           error |-> r.error,
           loaded |-> [ld EXCEPT ![file] = obj],
           parses |-> [ps EXCEPT ![file] = @ + 1], reads |-> {file}]

\* the getter of module.exports[file]: _x || (_x = loadPatterns(...))
Getter(file, ld, ps) ==
  IF ld[file].gen # 0
  THEN [threw |-> FALSE, value |-> ld[file], error |-> NoError,
        loaded |-> ld, parses |-> ps, reads |-> {}]
  ELSE LET r == loadPatterns(file)
           obj == [file |-> file, gen |-> ps[file] + 1, json |-> r.value]
       IN IF r.threw
          THEN [threw |-> TRUE, value |-> NoObject, error |-> r.error,
                loaded |-> ld, parses |-> ps, reads |-> {file}]
          ELSE [threw |-> FALSE, value |-> obj, error |-> NoError,
                loaded |-> [ld EXCEPT ![file] = obj],
                parses |-> [ps EXCEPT ![file] = @ + 1], reads |-> {file}]

(***************************************************************************)
(* The Compiler.                                                           *)
(***************************************************************************)
\* the wrapping done without removing the anchors the source already has
AnchoredSourceKeepingAnchors(src, isFullMatch) ==
  IF isFullMatch /\ (~startsWith(src, "^") \/ ~endsWith(src, "$"))
  THEN <<"^", "(", "?", ":">> \o src \o <<")", "$">>
  ELSE src

\* the source handed to new RegExp for a pattern of a file in the given mode
AnchoredSource(src, isFullMatch) ==
  IF isFullMatch /\ (~startsWith(src, "^") \/ ~endsWith(src, "$"))
  THEN <<"^", "(", "?", ":">> \o StripTrailingDollar(StripLeadingCaret(src))
         \o <<")", "$">>
  ELSE src

\* the loop without the inner try/catch: it ends at the first bad regex
RECURSIVE CompileFromAborting(_, _)
CompileFromAborting(obj, i) ==
  IF i > Len(obj.json.patterns) THEN <<>>
  ELSE LET src == AnchoredSource(obj.json.patterns[i].pattern,
                                 obj.json.match_mode = "fullmatch")
       IN IF CompilesOK(src)
          THEN <<[pattern |-> [file |-> obj.file, gen |-> obj.gen, idx |-> i],
                  regex |-> src]>> \o CompileFromAborting(obj, i + 1)
          ELSE <<>>

\* the loop of getCompiledPatterns from the i-th pattern on
RECURSIVE CompileFrom(_, _)
CompileFrom(obj, i) ==
  IF i > Len(obj.json.patterns) THEN <<>>
  ELSE LET src == AnchoredSource(obj.json.patterns[i].pattern,
                                 obj.json.match_mode = "fullmatch")
       IN (IF CompilesOK(src)
           THEN <<[pattern |-> [file |-> obj.file, gen |-> obj.gen, idx |-> i],
                   regex |-> src]>>
           ELSE <<>>)
          \o CompileFrom(obj, i + 1)

\* the ids written to stderr by the loop of getCompiledPatterns
BadRegexIds(obj) ==
  LET ps == obj.json.patterns
      bad == SelectSeq([i \in 1..Len(ps) |-> i],
               LAMBDA i : ~CompilesOK(AnchoredSource(ps[i].pattern,
                                         obj.json.match_mode = "fullmatch")))
  IN [j \in 1..Len(bad) |-> ps[bad[j]].id]

\* getCompiledPatterns with the cache keyed by match_mode, not by object
getCompiledPatternsByMode(obj, cache) ==
  LET key == <<obj.json.match_mode, 0>>
  IN IF key \in DOMAIN cache
     THEN [compiled |-> cache[key], cache |-> cache, ran |-> {}, stderr |-> <<>>]
     ELSE LET compiled == CompileFrom(obj, 1)
          IN [compiled |-> compiled,
              cache |-> [k \in DOMAIN cache \cup {key} |->
                           IF k = key THEN compiled ELSE cache[k]],
              ran |-> {key},
              stderr |-> BadRegexIds(obj)]

\* getCompiledPatterns without the _regexCache.has test
getCompiledPatternsUncached(obj, cache) ==
  LET compiled == CompileFrom(obj, 1)
  IN [compiled |-> compiled,
      cache |-> [k \in DOMAIN cache \cup {Key(obj)} |->
                   IF k = Key(obj) THEN compiled ELSE cache[k]],
      ran |-> {Key(obj)},
      stderr |-> BadRegexIds(obj)]

\* getCompiledPatterns storing the sequence when its first entry is built
getCompiledPatternsPartial(obj, cache) ==
  IF Key(obj) \in DOMAIN cache
  THEN [compiled |-> cache[Key(obj)], cache |-> cache, ran |-> {}, stderr |-> <<>>]
  ELSE LET compiled == CompileFrom(obj, 1)
       IN [compiled |-> compiled,
           cache |-> [k \in DOMAIN cache \cup {Key(obj)} |->
                        IF k = Key(obj)
                        THEN SubSeq(compiled, 1, IF Len(compiled) > 0 THEN 1 ELSE 0)
                        ELSE cache[k]],
           ran |-> {Key(obj)},
           stderr |-> BadRegexIds(obj)]

\* getCompiledPatterns(patternFile) on the cache given
getCompiledPatterns(obj, cache) ==
  IF Key(obj) \in DOMAIN cache
  THEN [compiled |-> cache[Key(obj)], cache |-> cache, ran |-> {}, stderr |-> <<>>]
  ELSE LET compiled == CompileFrom(obj, 1)
       IN [compiled |-> compiled,
           cache |-> [k \in DOMAIN cache \cup {Key(obj)} |->
                        IF k = Key(obj) THEN compiled ELSE cache[k]],
           ran |-> {Key(obj)},
           stderr |-> BadRegexIds(obj)]

(***************************************************************************)
(* The Platform Filter.                                                    *)
(***************************************************************************)
detectPlatform ==
  CASE hostPlatform = "win32" -> "windows"
    [] hostPlatform = "darwin" -> "macos"
    [] OTHER -> "linux"

\* getCurrentPlatform without the memo: the host is asked on every call
getCurrentPlatformUnmemoized(detected) == detectPlatform

\* _detectedPlatform || (_detectedPlatform = detectPlatform())
getCurrentPlatform(detected) == IF detected # Undefined THEN detected ELSE detectPlatform

\* resolvePlatform storing an explicit platform in _detectedPlatform
resolvePlatformRemembering(options, detected) ==
  IF ~options.given \/ options.platform = Undefined \/ options.platform = "auto"
  THEN [platform |-> getCurrentPlatform(detected), detected |-> getCurrentPlatform(detected)]
  ELSE [platform |-> options.platform, detected |-> options.platform]

\* resolvePlatform(options): the platform to filter by, and _detectedPlatform after it
resolvePlatform(options, detected) ==
  IF ~options.given \/ options.platform = Undefined \/ options.platform = "auto"
  THEN [platform |-> getCurrentPlatform(detected), detected |-> getCurrentPlatform(detected)]
  ELSE [platform |-> options.platform, detected |-> detected]

\* matchesPlatform without the default for a pattern that has no platform tags
matchesPlatformTagged(pattern, platform) ==
  \/ platform = Null
  \/ "platforms" \in DOMAIN pattern /\ platform \in pattern.platforms

\* matchesPlatform that never filters
matchesAnyPlatform(pattern, platform) == TRUE

\* matchesPlatform taking platform null as "no platform": tagged patterns drop out
matchesPlatformNullStrict(pattern, platform) ==
  IF "platforms" \notin DOMAIN pattern \/ pattern.platforms = {} THEN TRUE
  ELSE platform \in pattern.platforms

matchesPlatform(pattern, platform) ==
  IF platform = Null THEN TRUE
  ELSE IF "platforms" \notin DOMAIN pattern \/ pattern.platforms = {} THEN TRUE
  ELSE platform \in pattern.platforms

(***************************************************************************)
(* The Evaluator.                                                          *)
(***************************************************************************)
\* the loop of a check: the index in compiled of the first entry that applies to
\* the platform and whose regex matches, 0 when the loop runs to its end
\* the loop without its early return: the last eligible entry wins
LastMatchFrom(compiled, ld, platform, input, i) ==
  LET eligible == {j \in i..Len(compiled) :
                     /\ matchesPlatform(Deref(ld, compiled[j].pattern), platform)
                     /\ RegexTest(compiled[j].regex, input)}
  IN IF eligible = {} THEN 0 ELSE CHOOSE j \in eligible : \A h \in eligible : h <= j

RECURSIVE FirstMatchFrom(_, _, _, _, _)
FirstMatchFrom(compiled, ld, platform, input, i) ==
  IF i > Len(compiled) THEN 0
  ELSE IF /\ matchesPlatform(Deref(ld, compiled[i].pattern), platform)
          /\ RegexTest(compiled[i].regex, input)
       THEN i
       ELSE FirstMatchFrom(compiled, ld, platform, input, i + 1)

NoCall ==
  [op |-> "none", input |-> Str(<<>>), options |-> NoOptions, kind |-> "none",
   matched |-> FALSE, pattern |-> NoPattern, value |-> <<"", 0>>, error |-> NoError,
   reads |-> {}, compiled |-> {}, stderr |-> <<>>]

\* a check that also reads the meta property on its way
CheckStringReadingMeta(op, file, input, normalized, options) ==
  LET base == [NoCall EXCEPT !.op = op, !.input = input, !.options = options]
      rp == resolvePlatform(options, detectedPlatform)
      g == Getter(file, loaded, parses)
      m == Getter("meta", g.loaded, g.parses)
  IN /\ detectedPlatform' = rp.detected
     /\ loaded' = m.loaded
     /\ parses' = m.parses
     /\ UNCHANGED <<disk, hostPlatform>>
     /\ IF g.threw
        THEN /\ regexCache' = regexCache
             /\ call' = [base EXCEPT !.kind = "throw", !.error = g.error,
                                     !.reads = g.reads]
        ELSE LET c == getCompiledPatterns(g.value, regexCache)
                 k == FirstMatchFrom(c.compiled, g.loaded, rp.platform, normalized, 1)
             IN /\ regexCache' = c.cache
                /\ call' = [base EXCEPT
                     !.kind = "return",
                     !.matched = (k # 0),
                     !.pattern = IF k # 0 THEN c.compiled[k].pattern ELSE NoPattern,
                     !.reads = g.reads, !.compiled = c.ran, !.stderr = c.stderr]

\* a check past its typeof test: op on the collection of `file`, where
\* `normalized` is what the function tests in place of the input
CheckString(op, file, input, normalized, options) ==
  LET base == [NoCall EXCEPT !.op = op, !.input = input, !.options = options]
      rp == resolvePlatform(options, detectedPlatform)
      g == Getter(file, loaded, parses)
  IN /\ detectedPlatform' = rp.detected
     /\ loaded' = g.loaded
     /\ parses' = g.parses
     /\ UNCHANGED <<disk, hostPlatform>>
     /\ IF g.threw
        THEN /\ regexCache' = regexCache
             /\ call' = [base EXCEPT !.kind = "throw", !.error = g.error,
                                     !.reads = g.reads]
        ELSE LET c == getCompiledPatterns(g.value, regexCache)
                 k == FirstMatchFrom(c.compiled, g.loaded, rp.platform, normalized, 1)
             IN /\ regexCache' = c.cache
                /\ call' = [base EXCEPT
                     !.kind = "return",
                     !.matched = (k # 0),
                     !.pattern = IF k # 0 THEN c.compiled[k].pattern ELSE NoPattern,
                     !.reads = g.reads, !.compiled = c.ran, !.stderr = c.stderr]

\* a check that lets a non-string input reach command.trim(): a TypeError
CheckCallRaisingTypeError(op, file, input, normalized, options) ==
  IF input.type # "string"
  THEN /\ call' = [NoCall EXCEPT !.op = op, !.input = input, !.options = options,
                                 !.kind = "throw",
                                 !.error = [wrapped |-> FALSE, filename |-> "",
                                            cause |-> "TypeError"]]
       /\ UNCHANGED <<disk, hostPlatform, loaded, parses, regexCache, detectedPlatform>>
  ELSE CheckString(op, file, input, normalized, options)

\* a check without its typeof test
CheckCallUnguarded(op, file, input, normalized, options) ==
  CheckString(op, file, input, normalized, options)

\* a check that treats the empty string like a value that is not a string
CheckCallRejectingEmpty(op, file, input, normalized, options) ==
  IF input.type # "string" \/ input.chars = <<>>
  THEN /\ call' = [NoCall EXCEPT !.op = op, !.input = input, !.options = options,
                                 !.kind = "return"]
       /\ UNCHANGED <<disk, hostPlatform, loaded, parses, regexCache, detectedPlatform>>
  ELSE CheckString(op, file, input, normalized, options)

\* the body shared by the five check functions
CheckCall(op, file, input, normalized, options) ==
  IF input.type # "string"
  THEN /\ call' = [NoCall EXCEPT !.op = op, !.input = input, !.options = options,
                                 !.kind = "return"]
       /\ UNCHANGED <<disk, hostPlatform, loaded, parses, regexCache, detectedPlatform>>
  ELSE CheckString(op, file, input, normalized, options)

checkBashDangerous(command, options) ==
  CheckCall("checkBashDangerous", "bashDangerous", command, command.chars, options)

\* checkBashSafe without command.trim()
checkBashSafeUntrimmed(command, options) ==
  CheckCall("checkBashSafe", "bashSafe", command, command.chars, options)

checkBashSafe(command, options) ==
  CheckCall("checkBashSafe", "bashSafe", command, trim(command.chars), options)

checkReadDangerous(filePath, options) ==
  CheckCall("checkReadDangerous", "readDangerous", filePath,
            normalizeSlashes(filePath.chars), options)

checkReadSensitive(filePath, options) ==
  CheckCall("checkReadSensitive", "readSensitive", filePath,
            normalizeSlashes(filePath.chars), options)

\* checkReadSafe reading the collection of checkReadSensitive
checkReadSafeOnSensitive(filePath, options) ==
  CheckCall("checkReadSafe", "readSensitive", filePath,
            normalizeSlashes(filePath.chars), options)

checkReadSafe(filePath, options) ==
  CheckCall("checkReadSafe", "readSafe", filePath,
            normalizeSlashes(filePath.chars), options)

\* reading the property module.exports[file]
Access(file) ==
  LET g == Getter(file, loaded, parses)
  IN /\ loaded' = g.loaded
     /\ parses' = g.parses
     /\ call' = [NoCall EXCEPT !.op = "get", !.input = Str(<<file>>),
                               !.kind = IF g.threw THEN "throw" ELSE "return",
                               !.value = Key(g.value), !.error = g.error,
                               !.reads = g.reads]
     /\ UNCHANGED <<disk, hostPlatform, regexCache, detectedPlatform>>

(***************************************************************************)
(* The evaluation order README.md prescribes to consumers.                 *)
(***************************************************************************)
\* the module state a consumer's calls run on, one after the other
StateNow ==
  [loaded |-> loaded, parses |-> parses, cache |-> regexCache,
   detected |-> detectedPlatform, reads |-> {}, compiled |-> {}, stderr |-> <<>>]

\* a check function as a step of a consumer: its outcome on the state st and the
\* state it leaves
RunCheck(file, input, normalized, options, st) ==
  IF input.type # "string"
  THEN [threw |-> FALSE, error |-> NoError, matched |-> FALSE, pattern |-> NoPattern,
        st |-> st]
  ELSE LET rp == resolvePlatform(options, st.detected)
           g == Getter(file, st.loaded, st.parses)
           st1 == [st EXCEPT !.detected = rp.detected, !.loaded = g.loaded,
                             !.parses = g.parses, !.reads = @ \cup g.reads]
       IN IF g.threw
          THEN [threw |-> TRUE, error |-> g.error, matched |-> FALSE,
                pattern |-> NoPattern, st |-> st1]
          ELSE LET c == getCompiledPatterns(g.value, st.cache)
                   k == FirstMatchFrom(c.compiled, g.loaded, rp.platform, normalized, 1)
               IN [threw |-> FALSE, error |-> NoError, matched |-> (k # 0),
                   pattern |-> IF k # 0 THEN c.compiled[k].pattern ELSE NoPattern,
                   st |-> [st1 EXCEPT !.cache = c.cache, !.compiled = @ \cup c.ran,
                                      !.stderr = @ \o c.stderr]]

\* what a consumer is left with after its last check r: a verdict, or the error
Conclude(op, input, options, r, verdict) ==
  /\ loaded' = r.st.loaded
  /\ parses' = r.st.parses
  /\ regexCache' = r.st.cache
  /\ detectedPlatform' = r.st.detected
  /\ call' = [NoCall EXCEPT
       !.op = op, !.input = input, !.options = options,
       !.kind = IF r.threw THEN "throw" ELSE "return",
       !.value = IF r.threw THEN NoCall.value ELSE <<verdict, 0>>,
       !.matched = r.matched, !.pattern = r.pattern, !.error = r.error,
       !.reads = r.st.reads, !.compiled = r.st.compiled, !.stderr = r.st.stderr]
  /\ UNCHANGED <<disk, hostPlatform>>

\* a consumer that asks checkBashSafe first
evaluateCommandSafeFirst(command, options) ==
  LET s == RunCheck("bashSafe", command, trim(command.chars), options, StateNow)
      d == RunCheck("bashDangerous", command, command.chars, options, s.st)
  IN IF s.threw \/ s.matched
     THEN Conclude("evaluateCommand", command, options, s, "ALLOW")
     ELSE Conclude("evaluateCommand", command, options, d,
                   IF d.matched THEN "BLOCK" ELSE "UNKNOWN")

\* bash commands: 1. checkBashDangerous -> BLOCK, 2. checkBashSafe -> ALLOW,
\* 3. unknown -> escalate
evaluateCommand(command, options) ==
  LET d == RunCheck("bashDangerous", command, command.chars, options, StateNow)
      s == RunCheck("bashSafe", command, trim(command.chars), options, d.st)
  IN IF d.threw \/ d.matched
     THEN Conclude("evaluateCommand", command, options, d, "BLOCK")
     ELSE Conclude("evaluateCommand", command, options, s,
                   IF s.matched THEN "ALLOW" ELSE "UNKNOWN")

\* file reads: 1. checkReadDangerous -> BLOCK, 2. checkReadSensitive -> WARN,
\* 3. checkReadSafe -> ALLOW, 4. unknown -> escalate
evaluateRead(filePath, options) ==
  LET n == normalizeSlashes(filePath.chars)
      d == RunCheck("readDangerous", filePath, n, options, StateNow)
      w == RunCheck("readSensitive", filePath, n, options, d.st)
      s == RunCheck("readSafe", filePath, n, options, w.st)
  IN IF d.threw \/ d.matched
     THEN Conclude("evaluateRead", filePath, options, d, "BLOCK")
     ELSE IF w.threw \/ w.matched
     THEN Conclude("evaluateRead", filePath, options, w, "WARN")
     ELSE Conclude("evaluateRead", filePath, options, s,
                   IF s.matched THEN "ALLOW" ELSE "UNKNOWN")

(***************************************************************************)
(* preload().                                                              *)
(***************************************************************************)
\* the array literal of preload: the getters touched in order from the i-th on,
\* stopping at the first that throws
RECURSIVE TouchFrom(_, _, _, _)
TouchFrom(i, ld, ps, reads) ==
  IF i > Len(PreloadOrder)
  THEN [threw |-> FALSE, error |-> NoError, loaded |-> ld, parses |-> ps, reads |-> reads]
  ELSE LET g == Getter(PreloadOrder[i], ld, ps)
       IN IF g.threw
          THEN [threw |-> TRUE, error |-> g.error, loaded |-> ld, parses |-> ps,
                reads |-> reads \cup g.reads]
          ELSE TouchFrom(i + 1, g.loaded, g.parses, reads \cup g.reads)

\* a forEach that compiles nothing
CompileAllFromSkipping(i, ld, acc) == acc

\* files.forEach(f => { if (f.patterns) getCompiledPatterns(f); }) from the i-th on
RECURSIVE CompileAllFrom(_, _, _)
CompileAllFrom(i, ld, acc) ==
  IF i > Len(PreloadOrder) THEN acc
  ELSE LET obj == ld[PreloadOrder[i]]
       IN IF "patterns" \in DOMAIN obj.json
          THEN LET c == getCompiledPatterns(obj, acc.cache)
               IN CompileAllFrom(i + 1, ld,
                    [cache |-> c.cache, ran |-> acc.ran \cup c.ran,
                     stderr |-> acc.stderr \o c.stderr])
          ELSE CompileAllFrom(i + 1, ld, acc)

\* preload compiling each collection as soon as its getter has returned
preloadCompilingLoaded ==
  LET t == TouchFrom(1, loaded, parses, {})
      c == CompileAllFrom(1, t.loaded, [cache |-> regexCache, ran |-> {}, stderr |-> <<>>])
  IN /\ loaded' = t.loaded
     /\ parses' = t.parses
     /\ regexCache' = c.cache
     /\ call' = IF t.threw
                THEN [NoCall EXCEPT !.op = "preload", !.kind = "rejected",
                                    !.error = t.error, !.reads = t.reads,
                                    !.compiled = c.ran, !.stderr = c.stderr]
                ELSE [NoCall EXCEPT !.op = "preload", !.kind = "resolved",
                                    !.reads = t.reads, !.compiled = c.ran,
                                    !.stderr = c.stderr]
     /\ UNCHANGED <<disk, hostPlatform, detectedPlatform>>

\* preload without its try/catch: a failing getter throws out of the call
preloadThrowing ==
  LET t == TouchFrom(1, loaded, parses, {})
      c == CompileAllFrom(1, t.loaded, [cache |-> regexCache, ran |-> {}, stderr |-> <<>>])
  IN /\ loaded' = t.loaded
     /\ parses' = t.parses
     /\ regexCache' = IF t.threw THEN regexCache ELSE c.cache
     /\ call' = IF t.threw
                THEN [NoCall EXCEPT !.op = "preload", !.kind = "throw",
                                    !.error = t.error, !.reads = t.reads]
                ELSE [NoCall EXCEPT !.op = "preload", !.kind = "resolved",
                                    !.reads = t.reads, !.compiled = c.ran,
                                    !.stderr = c.stderr]
     /\ UNCHANGED <<disk, hostPlatform, detectedPlatform>>

preload ==
  LET t == TouchFrom(1, loaded, parses, {})
      c == CompileAllFrom(1, t.loaded, [cache |-> regexCache, ran |-> {}, stderr |-> <<>>])
  IN /\ loaded' = t.loaded
     /\ parses' = t.parses
     /\ regexCache' = IF t.threw THEN regexCache ELSE c.cache
     /\ call' = IF t.threw
                THEN [NoCall EXCEPT !.op = "preload", !.kind = "rejected",
                                    !.error = t.error, !.reads = t.reads]
                ELSE [NoCall EXCEPT !.op = "preload", !.kind = "resolved",
                                    !.reads = t.reads, !.compiled = c.ran,
                                    !.stderr = c.stderr]
     /\ UNCHANGED <<disk, hostPlatform, detectedPlatform>>

(***************************************************************************)
(* The data of the pattern files the process runs on.                      *)
(***************************************************************************)
Pat(id, src, platforms) == [id |-> id, pattern |-> src, platforms |-> platforms]

\* a pattern collection file as JSON.parse returns it
CollectionJson(mode, patterns) == [match_mode |-> mode, patterns |-> patterns]

ReadableFile(json) == [ok |-> TRUE, json |-> json, cause |-> ""]

\* a file that readFileSync (ENOENT) or JSON.parse (SyntaxError) throws on
UnreadableFile(cause) == [ok |-> FALSE, json |-> NoObject.json, cause |-> cause]

\* how each file fails to load when its backing data is bad
LoadFailure(file) ==
  IF file \in {"readDangerous", "readSensitive", "readSafe"} THEN "SyntaxError"
  ELSE "ENOENT"

\* meta.json as shipped with the collection files colls
MetaJson(colls) ==
  LET count(i) == IF colls[PreloadOrder[i]].ok
                  THEN Len(colls[PreloadOrder[i]].json.patterns) ELSE 0
  IN [stats |-> [f \in Collections |->
                   IF colls[f].ok THEN Len(colls[f].json.patterns) ELSE 0],
      total |-> count(1) + count(2) + count(3) + count(4) + count(5)]

Modes == {"search", "fullmatch"}

\* match_mode of each collection file as shipped (SCHEMA.md)
ShippedModes == [f \in Collections |-> IF f = "bashSafe" THEN "fullmatch" ELSE "search"]

\* every collection file in the same mode
AllInMode(m) == [f \in Collections |-> m]

\* the files of patterns/: the collections readable with the modes and patterns
\* given, but for the files of `bad`
DiskOf(modes, patterns, bad) ==
  LET colls == [f \in Collections |->
                  IF f \in bad THEN UnreadableFile(LoadFailure(f))
                  ELSE ReadableFile(CollectionJson(modes[f], patterns))]
  IN [f \in Files |->
        IF f \in Collections THEN colls[f]
        ELSE IF f \in bad THEN UnreadableFile(LoadFailure(f))
        ELSE ReadableFile(MetaJson(colls))]

\* the state of the process once index.js has been required
Fresh ==
  /\ loaded = [f \in Files |-> NoObject]
  /\ parses = [f \in Files |-> 0]
  /\ regexCache = <<>>
  /\ detectedPlatform = Undefined
  /\ call = NoCall

(***************************************************************************)
(* Spec: a process making any sequence of calls on the module, some of its *)
(* pattern files possibly unreadable.                                      *)
(***************************************************************************)
\* a collection with a pattern for linux and macos, one whose regex does not
\* compile, one for windows alone and one with no platform tag
SamplePatterns ==
  <<Pat("P1", <<"a">>, {"linux", "macos"}),
    Pat("P2", <<"(", "a">>, Platforms),
    Pat("P3", <<"a">>, {"windows"}),
    Pat("P4", <<"b">>, {})>>

Init ==
  /\ \E bad \in SUBSET Files :
       /\ Cardinality(bad) <= MaxCorrupt
       /\ disk = DiskOf(ShippedModes, SamplePatterns, bad)
  /\ hostPlatform = "win32"
  /\ Fresh

Number == [type |-> "number", chars |-> <<>>]

CallInputs == {Str(<<"a">>), Number}

CallOptions == {NoOptions, Opt(Null)}

\* the properties read in README.md's raw pattern data example
RawFiles == {"bashDangerous", "readDangerous", "meta"}

CallBashDangerous == \E c \in CallInputs, o \in CallOptions : checkBashDangerous(c, o)

CallBashSafe == \E c \in CallInputs, o \in CallOptions : checkBashSafe(c, o)

CallReadDangerous == \E c \in CallInputs, o \in CallOptions : checkReadDangerous(c, o)

CallReadSensitive == \E c \in CallInputs, o \in CallOptions : checkReadSensitive(c, o)

CallReadSafe == \E c \in CallInputs, o \in CallOptions : checkReadSafe(c, o)

ReadProperty == \E f \in RawFiles : Access(f)

Next ==
  \/ CallBashDangerous
  \/ CallBashSafe
  \/ CallReadDangerous
  \/ CallReadSensitive
  \/ CallReadSafe
  \/ ReadProperty
  \/ preload

Spec == Init /\ [][Next]_vars

(***************************************************************************)
(* SpecMatch: one check call on a fresh process, over every short pattern  *)
(* list, host platform, input and options value.                           *)
(***************************************************************************)
MatchPatterns ==
  {Pat("Q1", <<"a">>, {"linux", "macos"}),
   Pat("Q2", <<"a">>, {"windows"}),
   Pat("Q3", <<"(", "a">>, Platforms),
   Pat("Q4", <<"b">>, {}),
   [id |-> "Q5", pattern |-> <<"a", "/", "b">>],
   Pat("Q6", <<"^", "a", "|", "b", "$">>, {"linux", "windows"})}

\* the lists of at most n patterns of S with no pattern twice (ids are unique)
RECURSIVE ListsUpTo(_, _)
ListsUpTo(S, n) ==
  IF n = 0 THEN {<<>>}
  ELSE LET shorter == ListsUpTo(S, n - 1)
       IN shorter \cup {Append(l, q) : l \in shorter, q \in S}

PatternLists ==
  {l \in ListsUpTo(MatchPatterns, MaxPatterns) :
     \A i, j \in 1..Len(l) : l[i].id = l[j].id => i = j}

InitMatch ==
  /\ \E patterns \in PatternLists, m \in Modes :
       disk = DiskOf(AllInMode(m), patterns, {})
  /\ hostPlatform \in HostPlatforms
  /\ Fresh

MatchInputs ==
  {Str(<<"a">>), Str(<<"B">>), Str(<<" ", "a", " ">>), Str(<<"a", "\\", "b">>),
   Str(<<"a", "b">>), Str(<<>>), Number}

FirstCall == call.op = "none"

MatchBashDangerous ==
  FirstCall /\ \E c \in MatchInputs, o \in AllOptions : checkBashDangerous(c, o)

MatchBashSafe ==
  FirstCall /\ \E c \in MatchInputs, o \in AllOptions : checkBashSafe(c, o)

MatchReadDangerous ==
  FirstCall /\ \E c \in MatchInputs, o \in AllOptions : checkReadDangerous(c, o)

MatchReadSensitive ==
  FirstCall /\ \E c \in MatchInputs, o \in AllOptions : checkReadSensitive(c, o)

MatchReadSafe ==
  FirstCall /\ \E c \in MatchInputs, o \in AllOptions : checkReadSafe(c, o)

NextMatch ==
  \/ MatchBashDangerous
  \/ MatchBashSafe
  \/ MatchReadDangerous
  \/ MatchReadSensitive
  \/ MatchReadSafe

SpecMatch == InitMatch /\ [][NextMatch]_vars

(***************************************************************************)
(* SpecRegex: one check call on a fresh process whose collections hold one *)
(* pattern, over every short regex source, both match modes and every      *)
(* short input.                                                            *)
(***************************************************************************)
\* the strings over alphabet of length at most n
RECURSIVE StringsUpTo(_, _)
StringsUpTo(alphabet, n) ==
  IF n = 0 THEN {<<>>}
  ELSE LET shorter == StringsUpTo(alphabet, n - 1)
       IN shorter \cup {Append(w, c) : w \in shorter, c \in alphabet}

SourceAlphabet == {"^", "$", "|", "a"}

InputAlphabet == {"a", "b"}

InitRegex ==
  /\ \E src \in StringsUpTo(SourceAlphabet, MaxSrcLen), m \in Modes :
       disk = DiskOf(AllInMode(m), <<Pat("R1", src, Platforms)>>, {})
  /\ hostPlatform = "linux"
  /\ Fresh

RegexInputs == {Str(w) : w \in StringsUpTo(InputAlphabet, MaxInputLen)}

RegexBashSafe == FirstCall /\ \E c \in RegexInputs : checkBashSafe(c, Opt(Null))

RegexReadSafe == FirstCall /\ \E c \in RegexInputs : checkReadSafe(c, Opt(Null))

NextRegex == RegexBashSafe \/ RegexReadSafe

SpecRegex == InitRegex /\ [][NextRegex]_vars

(***************************************************************************)
(* SpecEnv: checks made while the environment changes under the process:   *)
(* process.platform is given another value, a pattern file becomes         *)
(* unreadable or is put back.                                              *)
(***************************************************************************)
\* one pattern for each platform, all matching "a"
EnvPatterns ==
  <<Pat("E1", <<"a">>, {"macos"}),
    Pat("E2", <<"a">>, {"windows"}),
    Pat("E3", <<"a">>, {"linux"})>>

\* the files that change in SpecEnv
EnvFiles == {"bashDangerous", "readSafe"}

InitEnv ==
  /\ \E bad \in SUBSET EnvFiles : disk = DiskOf(ShippedModes, EnvPatterns, bad)
  /\ hostPlatform \in HostPlatforms
  /\ Fresh

EnvBashDangerous == \E o \in AllOptions : checkBashDangerous(Str(<<"a">>), o)

EnvReadSafe == \E o \in AllOptions : checkReadSafe(Str(<<"a">>), o)

\* process.platform is given another value
HostChanges ==
  /\ \E h \in HostPlatforms \ {hostPlatform} : hostPlatform' = h
  /\ UNCHANGED <<disk, loaded, parses, regexCache, detectedPlatform, call>>

\* an unreadable pattern file is put back
RepairFile ==
  /\ \E f \in EnvFiles :
       /\ ~disk[f].ok
       /\ disk' = [disk EXCEPT ![f] = DiskOf(ShippedModes, EnvPatterns, {})[f]]
  /\ UNCHANGED <<hostPlatform, loaded, parses, regexCache, detectedPlatform, call>>

\* a pattern file becomes unreadable
CorruptFile ==
  /\ \E f \in EnvFiles :
       /\ disk[f].ok
       /\ disk' = [disk EXCEPT ![f] = UnreadableFile(LoadFailure(f))]
  /\ UNCHANGED <<hostPlatform, loaded, parses, regexCache, detectedPlatform, call>>

NextEnv ==
  \/ EnvBashDangerous
  \/ EnvReadSafe
  \/ HostChanges
  \/ RepairFile
  \/ CorruptFile

SpecEnv == InitEnv /\ [][NextEnv]_vars

(***************************************************************************)
(* SpecNorm: checks called again and again on commands and paths that      *)
(* differ in surrounding whitespace and in the direction of their slashes. *)
(***************************************************************************)
\* a pattern anchored at both ends, one with a slash, one with a backslash
NormPatterns ==
  {Pat("N1", <<"^", "a", "$">>, {}),
   Pat("N2", <<"a", "/", "b">>, {}),
   Pat("N3", <<"a", "\\", "\\", "b">>, {})}

InitNorm ==
  /\ \E p \in NormPatterns : disk = DiskOf(ShippedModes, <<p>>, {})
  /\ hostPlatform = "linux"
  /\ Fresh

NormInputs ==
  {Str(<<"a">>), Str(<<" ", "a">>), Str(<<"a", " ">>), Str(<<"a", "/", "b">>),
   Str(<<"a", "\\", "b">>), Str(<<" ", "a", "\\", "b">>)}

NormBashDangerous == \E c \in NormInputs : checkBashDangerous(c, Opt(Null))

NormBashSafe == \E c \in NormInputs : checkBashSafe(c, Opt(Null))

NormReadDangerous == \E c \in NormInputs : checkReadDangerous(c, Opt(Null))

NormReadSensitive == \E c \in NormInputs : checkReadSensitive(c, Opt(Null))

NormReadSafe == \E c \in NormInputs : checkReadSafe(c, Opt(Null))

NextNorm ==
  \/ NormBashDangerous
  \/ NormBashSafe
  \/ NormReadDangerous
  \/ NormReadSensitive
  \/ NormReadSafe

SpecNorm == InitNorm /\ [][NextNorm]_vars

(***************************************************************************)
(* SpecProtocol: a consumer that follows README.md's evaluation order, on  *)
(* collections that differ from tier to tier.                              *)
(***************************************************************************)
\* what a tier may hold: nothing, a pattern for "a", or a pattern for "b"
TierLists ==
  {<<>>, <<Pat("T1", <<"a">>, {})>>, <<Pat("T2", <<"b">>, {})>>}

\* the pattern files when collection f holds lists[f], those in bad unreadable
TierDisk(lists, bad) ==
  LET colls == [f \in Collections |->
                  IF f \in bad THEN UnreadableFile(LoadFailure(f))
                  ELSE ReadableFile(CollectionJson(ShippedModes[f], lists[f]))]
  IN [f \in Files |-> IF f \in Collections THEN colls[f]
                      ELSE ReadableFile(MetaJson(colls))]

InitProtocol ==
  /\ \E lists \in [Collections -> TierLists], bad \in {{}, {"bashDangerous"}} :
       disk = TierDisk(lists, bad)
  /\ hostPlatform = "linux"
  /\ Fresh

ProtocolInputs == {Str(<<"a">>), Str(<<"a", "b">>), Number}

ConsumerCommand == \E c \in ProtocolInputs : evaluateCommand(c, NoOptions)

ConsumerRead == \E c \in ProtocolInputs : evaluateRead(c, NoOptions)

NextProtocol == ConsumerCommand \/ ConsumerRead

SpecProtocol == InitProtocol /\ [][NextProtocol]_vars

(***************************************************************************)
(* What the claims speak of.                                               *)
(***************************************************************************)
CheckOps ==
  {"checkBashDangerous", "checkBashSafe", "checkReadDangerous", "checkReadSensitive",
   "checkReadSafe"}

\* the collection each entry point is bound to
BoundFile(op) ==
  CASE op = "checkBashDangerous" -> "bashDangerous"
    [] op = "checkBashSafe" -> "bashSafe"
    [] op = "checkReadDangerous" -> "readDangerous"
    [] op = "checkReadSensitive" -> "readSensitive"
    [] op = "checkReadSafe" -> "readSafe"

\* the normalized input each entry point matches against
Tested(op, chars) ==
  CASE op = "checkBashDangerous" -> chars
    [] op = "checkBashSafe" -> trim(chars)
    [] OTHER -> normalizeSlashes(chars)

\* the last call was a check on a string
StringCheck == call.op \in CheckOps /\ call.input.type = "string"

\* the last call asked for the detected platform
AutoPlatform ==
  ~call.options.given \/ call.options.platform \in {Undefined, "auto"}

\* the platform the last call was filtered by
PlatformUsed == IF AutoPlatform THEN detectedPlatform ELSE call.options.platform

\* the compiled sequence of the collection the last call is bound to
CompiledOfCall == regexCache[Key(loaded[BoundFile(call.op)])]

\* the entries of the compiled sequence whose regex matches the last call's input
RegexHits ==
  {j \in 1..Len(CompiledOfCall) :
     RegexTest(CompiledOfCall[j].regex, Tested(call.op, call.input.chars))}

\* those that also apply to the platform of the call
Hits ==
  {j \in RegexHits :
     matchesPlatform(Deref(loaded, CompiledOfCall[j].pattern), PlatformUsed)}

\* the regex src, alone, matches the whole of s
MatchesEntire(src, s) == Len(s) \in EndsAlt(Tokenize(src), s, {0})

(***************************************************************************)
(* C1: in a collection whose match_mode is fullmatch, every matcher that   *)
(* getCompiledPatterns produced accepts an input only if the pattern's     *)
(* source regex matches the entire input, whether or not the source        *)
(* carries ^ and $.                                                        *)
(***************************************************************************)
C1_FullmatchEnforced ==
  \A k \in DOMAIN regexCache :
    loaded[k[1]].json.match_mode = "fullmatch" =>
      \A j \in 1..Len(regexCache[k]) :
        \A w \in StringsUpTo(InputAlphabet, MaxInputLen) :
          RegexTest(regexCache[k][j].regex, w)
            => MatchesEntire(Deref(loaded, regexCache[k][j].pattern).pattern, w)

\* checkBashSafe matched an input that the source regex does not match entirely
C1_Witness ==
  /\ call.op = "checkBashSafe"
  /\ call.matched
  /\ loaded["bashSafe"].json.match_mode = "fullmatch"
  /\ ~MatchesEntire(Deref(loaded, call.pattern).pattern, trim(call.input.chars))

(***************************************************************************)
(* C2: a check on a string returns the first entry, in file order, of the  *)
(* compiled patterns that apply to the resolved platform and whose regex   *)
(* matches the normalized input, and {matched: false} exactly when there   *)
(* is none.                                                                *)
(***************************************************************************)
C2_FirstMatchWins ==
  (StringCheck /\ call.kind = "return") =>
    IF Hits = {} THEN ~call.matched /\ call.pattern = NoPattern
    ELSE /\ call.matched
         /\ \E j \in Hits :
              /\ call.pattern = CompiledOfCall[j].pattern
              /\ \A h \in Hits :
                   CompiledOfCall[j].pattern.idx <= CompiledOfCall[h].pattern.idx

\* a check with two eligible patterns
C2_Witness == StringCheck /\ call.kind = "return" /\ Cardinality(Hits) >= 2

(***************************************************************************)
(* C3: a check on an input that is not a string returns {matched: false},  *)
(* does not throw, reads and compiles nothing and leaves every cache as it *)
(* was, also when the collection's file is unreadable.                     *)
(***************************************************************************)
C3_NonStringNoMatch ==
  [][(call'.op \in CheckOps /\ call'.input.type # "string") =>
       /\ call'.kind = "return"
       /\ ~call'.matched
       /\ call'.pattern = NoPattern
       /\ call'.reads = {}
       /\ call'.compiled = {}
       /\ UNCHANGED <<loaded, parses, regexCache, detectedPlatform>>]_vars

\* a non-string check on a collection whose file is unreadable
C3_Witness ==
  /\ call.op \in CheckOps
  /\ call.input.type # "string"
  /\ call.kind = "return"
  /\ ~disk[BoundFile(call.op)].ok

(***************************************************************************)
(* C4: a check result is {matched: false} with no pattern, or              *)
(* {matched: true, pattern} where pattern is an unmodified record of the   *)
(* entry point's own collection that applies to the resolved platform and  *)
(* whose compiled regex matches the normalized input.                      *)
(***************************************************************************)
C4_ResultSound ==
  (call.op \in CheckOps /\ call.kind = "return") =>
    IF ~call.matched THEN call.pattern = NoPattern
    ELSE LET file == BoundFile(call.op)
         IN /\ call.pattern.file = file
            /\ call.pattern.gen = loaded[file].gen
            /\ call.pattern.idx \in 1..Len(disk[file].json.patterns)
            /\ Deref(loaded, call.pattern) = disk[file].json.patterns[call.pattern.idx]
            /\ \E j \in Hits : CompiledOfCall[j].pattern = call.pattern

\* a check that returned the second pattern of its collection
C4_Witness == StringCheck /\ call.matched /\ call.pattern.idx = 2

(***************************************************************************)
(* C5: for an input matched only by patterns tagged windows alone, the     *)
(* check reports no match for platform linux, a match for platform windows *)
(* and a match when filtering is disabled (platform null).                 *)
(***************************************************************************)
OnlyWindowsMatches ==
  /\ StringCheck
  /\ call.kind = "return"
  /\ RegexHits # {}
  /\ \A j \in RegexHits :
       LET p == Deref(loaded, CompiledOfCall[j].pattern)
       IN "platforms" \in DOMAIN p /\ p.platforms = {"windows"}

C5_PlatformFiltering ==
  OnlyWindowsMatches =>
    /\ call.options = Opt("linux") => ~call.matched
    /\ call.options = Opt("windows") => call.matched
    /\ call.options = Opt(Null) => call.matched

\* the windows-only pattern skipped for platform linux
C5_Witness == OnlyWindowsMatches /\ call.options = Opt("linux") /\ ~call.matched

(***************************************************************************)
(* C6: when the file of its collection cannot be read or parsed, a check   *)
(* on a string throws an error that wraps the underlying cause; it returns *)
(* neither a match nor a no-match result in its place.                     *)
(***************************************************************************)
C6_LoadFailureThrown ==
  (StringCheck /\ ~disk[BoundFile(call.op)].ok) =>
    /\ call.kind = "throw"
    /\ call.error = [wrapped |-> TRUE, filename |-> BoundFile(call.op),
                     cause |-> disk[BoundFile(call.op)].cause]
    /\ ~call.matched
    /\ call.pattern = NoPattern

\* a check that threw on a file JSON.parse rejects
C6_Witness == StringCheck /\ call.kind = "throw" /\ call.error.cause = "SyntaxError"

(***************************************************************************)
(* C7: a pattern whose regex does not compile is dropped without raising:  *)
(* the compiled sequence holds exactly the patterns that compile, in their *)
(* original order, and checks go on to the remaining patterns.             *)
(***************************************************************************)
\* the indices of the patterns of a collection object whose regex compiles
Compilable(obj) ==
  {i \in 1..Len(obj.json.patterns) :
     CompilesOK(AnchoredSource(obj.json.patterns[i].pattern,
                               obj.json.match_mode = "fullmatch"))}

C7_BadRegexSkipped ==
  /\ \A k \in DOMAIN regexCache :
       LET seq == regexCache[k]
       IN /\ {seq[j].pattern.idx : j \in 1..Len(seq)} = Compilable(loaded[k[1]])
          /\ \A j \in 1..(Len(seq) - 1) : seq[j].pattern.idx < seq[j + 1].pattern.idx
  /\ (StringCheck /\ disk[BoundFile(call.op)].ok) =>
       /\ call.kind = "return"
       /\ Key(loaded[BoundFile(call.op)]) \in DOMAIN regexCache

\* a check that matched the pattern after one whose regex does not compile
C7_Witness ==
  /\ StringCheck
  /\ call.matched
  /\ call.pattern.idx = 2
  /\ 1 \notin Compilable(loaded[BoundFile(call.op)])

(***************************************************************************)
(* C8: a check gives the same result every time it is called with the same *)
(* input and options, however many times preload() was called before or    *)
(* between: the result is the one the call gives on a fresh process.       *)
(***************************************************************************)
\* kind, matched, pattern and error of a check made first thing in the process
FreshResult(op, input, options) ==
  LET file == BoundFile(op)
      obj == [file |-> file, gen |-> 1, json |-> disk[file].json]
      seq == CompileFrom(obj, 1)
      platform == IF ~options.given \/ options.platform \in {Undefined, "auto"}
                  THEN detectPlatform ELSE options.platform
      hits == {j \in 1..Len(seq) :
                 /\ matchesPlatform(obj.json.patterns[seq[j].pattern.idx], platform)
                 /\ RegexTest(seq[j].regex, Tested(op, input.chars))}
      first == CHOOSE j \in hits : \A h \in hits : j <= h
  IN IF input.type # "string" THEN <<"return", FALSE, "", 0, NoError>>
     ELSE IF ~disk[file].ok
     THEN <<"throw", FALSE, "", 0,
            [wrapped |-> TRUE, filename |-> file, cause |-> disk[file].cause]>>
     ELSE IF hits = {} THEN <<"return", FALSE, "", 0, NoError>>
     ELSE <<"return", TRUE, file, seq[first].pattern.idx, NoError>>

C8_SameResultEveryTime ==
  call.op \in CheckOps =>
    <<call.kind, call.matched, call.pattern.file, call.pattern.idx, call.error>>
      = FreshResult(call.op, call.input, call.options)

\* a check answered from the caches alone, on the memoized platform
C8_Witness ==
  /\ StringCheck
  /\ call.matched
  /\ call.options = NoOptions
  /\ call.reads = {}
  /\ call.compiled = {}

(***************************************************************************)
(* C9: once a property of module.exports has been loaded, every later      *)
(* access to it gives the identical cached object and does not read or     *)
(* parse the file again.                                                   *)
(***************************************************************************)
C9_LoadedOnce ==
  [][\A f \in Files :
       loaded[f].gen # 0 =>
         /\ loaded'[f] = loaded[f]
         /\ parses'[f] = parses[f]
         /\ f \notin call'.reads
         /\ (call'.op = "get" /\ call'.input = Str(<<f>>)) =>
              (call'.kind = "return" /\ call'.value = Key(loaded[f]))]_vars

\* a property read answered from the cache
C9_Witness == call.op = "get" /\ call.kind = "return" /\ call.reads = {}

(***************************************************************************)
(* C10: the first getCompiledPatterns call for a collection object builds  *)
(* its sequence, and every later call for that object gives the same       *)
(* sequence without compiling again.                                       *)
(***************************************************************************)
C10_CompiledOnce ==
  [][/\ \A k \in DOMAIN regexCache :
          /\ k \in DOMAIN regexCache'
          /\ regexCache'[k] = regexCache[k]
          /\ k \notin call'.compiled
     /\ call'.compiled = DOMAIN regexCache' \ DOMAIN regexCache
     /\ \A k \in call'.compiled : regexCache'[k] = CompileFrom(loaded'[k[1]], 1)]_vars

\* a check on a string that compiled nothing
C10_Witness == StringCheck /\ call.kind = "return" /\ call.compiled = {}

(***************************************************************************)
(* C11: once preload() has resolved, each of the five collections is       *)
(* loaded and has its compiled sequence cached, and from then on no check  *)
(* reads a file or compiles a regex.                                       *)
(***************************************************************************)
\* every collection is loaded in ld and has its compiled sequence in cache
AllReady(ld, cache) ==
  \A f \in Collections : ld[f].gen # 0 /\ Key(ld[f]) \in DOMAIN cache

C11_PreloadWarms ==
  [][/\ (call'.op = "preload" /\ call'.kind = "resolved") => AllReady(loaded', regexCache')
     /\ AllReady(loaded, regexCache) =>
          /\ AllReady(loaded', regexCache')
          /\ call'.op \in CheckOps => (call'.reads = {} /\ call'.compiled = {})]_vars

\* a check that matched with every file, meta included, loaded and compiled before
C11_Witness ==
  /\ StringCheck
  /\ call.matched
  /\ call.reads = {}
  /\ call.compiled = {}
  /\ AllReady(loaded, regexCache)
  /\ loaded["meta"].gen # 0

(***************************************************************************)
(* C12: preload() never throws: its promise resolves, with no payload,     *)
(* when every file loads, and rejects with the load error when one fails.  *)
(***************************************************************************)
\* the first file, in the order preload touches them, that cannot be loaded
FirstUnreadable ==
  LET bad == {i \in 1..Len(PreloadOrder) : ~disk[PreloadOrder[i]].ok}
  IN PreloadOrder[CHOOSE i \in bad : \A j \in bad : i <= j]

C12_PreloadSettles ==
  call.op = "preload" =>
    IF \A f \in Files : disk[f].ok
    THEN /\ call.kind = "resolved"
         /\ call.error = NoError
         /\ call.value = NoCall.value
         /\ ~call.matched
    ELSE /\ call.kind = "rejected"
         /\ call.error = [wrapped |-> TRUE, filename |-> FirstUnreadable,
                          cause |-> disk[FirstUnreadable].cause]

\* a preload rejected over a file that is missing
C12_Witness == call.op = "preload" /\ call.kind = "rejected" /\ call.error.cause = "ENOENT"

(***************************************************************************)
(* C13: with no options, or platform undefined or 'auto', a check filters  *)
(* by the platform detected from the host on the first such call and       *)
(* memoized, whatever the host says later; an explicit platform is used    *)
(* as given; platform null makes every compiled pattern eligible.          *)
(***************************************************************************)
\* a step of SpecEnv that is a check on a string, not a change of environment
CheckStep ==
  /\ disk' = disk
  /\ hostPlatform' = hostPlatform
  /\ call'.op \in CheckOps
  /\ call'.input.type = "string"

\* pattern p is eligible when the platform filtered by is `used`
EligibleUnder(p, used) ==
  \/ used = Null
  \/ "platforms" \notin DOMAIN p
  \/ p.platforms = {}
  \/ used \in p.platforms

C13_PlatformResolved ==
  [][CheckStep =>
       LET o == call'.options
           auto == ~o.given \/ o.platform \in {Undefined, "auto"}
           used == IF ~auto THEN o.platform
                   ELSE IF detectedPlatform # Undefined THEN detectedPlatform
                   ELSE detectPlatform
       IN /\ detectedPlatform' = IF auto THEN used ELSE detectedPlatform
          /\ call'.kind = "return" =>
               LET obj == loaded'[BoundFile(call'.op)]
                   seq == regexCache'[Key(obj)]
                   hits == {j \in 1..Len(seq) :
                              /\ EligibleUnder(obj.json.patterns[seq[j].pattern.idx], used)
                              /\ RegexTest(seq[j].regex, Tested(call'.op, call'.input.chars))}
               IN IF hits = {} THEN ~call'.matched
                  ELSE /\ call'.matched
                       /\ call'.pattern.idx \in {seq[j].pattern.idx : j \in hits}
                       /\ \A j \in hits : call'.pattern.idx <= seq[j].pattern.idx]_vars

\* an 'auto' check answered by the memoized platform while the host says another
C13_Witness ==
  /\ StringCheck
  /\ AutoPlatform
  /\ call.matched
  /\ detectedPlatform # detectPlatform
  /\ detectedPlatform \in Deref(loaded, call.pattern).platforms

(***************************************************************************)
(* C18 as claimed: once a check has failed on a load error, a later check  *)
(* on the same collection keeps failing with that error, even if the file  *)
(* has been put back in the meantime.                                      *)
(***************************************************************************)
C18_FailureIsFinal ==
  [][(/\ call.op \in CheckOps
      /\ call.kind = "throw"
      /\ CheckStep
      /\ call'.op = call.op) =>
       (call'.kind = "throw" /\ call'.error = call.error)]_vars

(***************************************************************************)
(* C18 as amended: a load failure is not remembered and a loaded           *)
(* collection is never read again.  A check on a collection not yet loaded *)
(* reads its file at that call: it throws the load error if the file is    *)
(* unreadable then, and loads and answers if it is readable then, also     *)
(* after earlier failures.  A check on a loaded collection answers from    *)
(* what was loaded, whatever has become of the file.                       *)
(***************************************************************************)
C18_LoadRetriedNoHotReload ==
  [][CheckStep =>
       LET f == BoundFile(call'.op)
       IN IF loaded[f].gen # 0
          THEN /\ call'.kind = "return"
               /\ call'.reads = {}
               /\ loaded'[f] = loaded[f]
          ELSE IF disk[f].ok
          THEN /\ call'.kind = "return"
               /\ call'.reads = {f}
               /\ loaded'[f].gen # 0
               /\ loaded'[f].json = disk[f].json
          ELSE /\ call'.kind = "throw"
               /\ call'.error = [wrapped |-> TRUE, filename |-> f, cause |-> disk[f].cause]
               /\ call'.reads = {f}
               /\ loaded'[f] = loaded[f]]_vars

\* a check answered from a loaded collection whose file has become unreadable
C18_Witness ==
  /\ StringCheck
  /\ call.kind = "return"
  /\ call.reads = {}
  /\ ~disk[BoundFile(call.op)].ok

(***************************************************************************)
(* C14: matchesPlatform(pattern, platform) is true when platform is null;  *)
(* otherwise it is true iff the pattern's platform tags contain the        *)
(* platform, except that a pattern whose tags are empty or missing applies *)
(* to every platform.                                                      *)
(***************************************************************************)
C14_MatchesPlatform ==
  \A f \in Collections :
    loaded[f].gen # 0 =>
      \A i \in 1..Len(loaded[f].json.patterns) :
        LET p == loaded[f].json.patterns[i]
            untagged == "platforms" \notin DOMAIN p \/ p.platforms = {}
        IN /\ matchesPlatform(p, Null)
           /\ \A pl \in Platforms :
                matchesPlatform(p, pl) <=> (untagged \/ pl \in p.platforms)

\* a check for platform linux that returned a pattern without platform tags
C14_Witness ==
  /\ StringCheck
  /\ call.matched
  /\ call.options = Opt("linux")
  /\ LET p == Deref(loaded, call.pattern)
     IN "platforms" \notin DOMAIN p \/ p.platforms = {}

(***************************************************************************)
(* C15: checkBashDangerous tests the command exactly as given;             *)
(* checkBashSafe gives for a command the result it gives for the trimmed   *)
(* command; the three read checks give for a path the result they give for *)
(* the path with every backslash replaced by a forward slash.              *)
(***************************************************************************)
ReadOps == {"checkReadDangerous", "checkReadSensitive", "checkReadSafe"}

C15_Normalization ==
  [][(/\ call.op \in CheckOps
      /\ call'.op = call.op
      /\ call.input.type = "string"
      /\ call'.input.type = "string"
      /\ call.kind = "return"
      /\ call'.kind = "return") =>
       LET same == /\ call'.matched = call.matched
                   /\ call'.pattern.idx = call.pattern.idx
           seq == regexCache'[Key(loaded'[BoundFile(call'.op)])]
           raw == {j \in 1..Len(seq) : RegexTest(seq[j].regex, call'.input.chars)}
       IN /\ (call.op = "checkBashSafe" /\ call'.input.chars = trim(call.input.chars))
               => same
          /\ (call.op \in ReadOps /\ call'.input.chars = normalizeSlashes(call.input.chars))
               => same
          /\ call'.op = "checkBashDangerous" => (call'.matched <=> raw # {})]_vars

\* checkBashSafe matched a command given with whitespace around it
C15_Witness ==
  /\ call.op = "checkBashSafe"
  /\ call.matched
  /\ call.input.chars # trim(call.input.chars)

(***************************************************************************)
(* C16: the match mode is fixed per entry point: checkBashSafe matches     *)
(* only when a pattern matches the whole trimmed command, and the other    *)
(* four checks match exactly when an eligible pattern matches anywhere in  *)
(* the input.                                                              *)
(***************************************************************************)
\* the patterns of the last call's collection that compile as written, apply to
\* the platform of the call and match somewhere in the input the call tests
SearchHits ==
  LET ps == loaded[BoundFile(call.op)].json.patterns
  IN {i \in 1..Len(ps) :
        /\ CompilesOK(ps[i].pattern)
        /\ EligibleUnder(ps[i], PlatformUsed)
        /\ RegexTest(ps[i].pattern, Tested(call.op, call.input.chars))}

C16_ModeFixedPerEntryPoint ==
  (StringCheck /\ call.kind = "return") =>
    IF call.op = "checkBashSafe"
    THEN call.matched =>
           MatchesEntire(Deref(loaded, call.pattern).pattern, trim(call.input.chars))
    ELSE call.matched <=> SearchHits # {}

\* checkBashDangerous missed a command that a pattern matches in part, its file
\* saying fullmatch
C16_Witness ==
  /\ call.op = "checkBashDangerous"
  /\ call.input.type = "string"
  /\ call.kind = "return"
  /\ ~call.matched
  /\ SearchHits # {}
  /\ loaded["bashDangerous"].json.match_mode = "fullmatch"

TierMatches(op) ==
  LET f == BoundFile(op)
      ps == disk[f].json.patterns
      full == disk[f].json.match_mode = "fullmatch"
  IN /\ call.input.type = "string"
     /\ \E i \in 1..Len(ps) :
          /\ CompilesOK(AnchoredSource(ps[i].pattern, full))
          /\ EligibleUnder(ps[i], PlatformUsed)
          /\ RegexTest(AnchoredSource(ps[i].pattern, full), Tested(op, call.input.chars))

C19_TierOrder ==
  /\ (call.op = "evaluateCommand" /\ call.kind = "return") =>
       call.value[1] =
         IF TierMatches("checkBashDangerous") THEN "BLOCK"
         ELSE IF TierMatches("checkBashSafe") THEN "ALLOW"
         ELSE "UNKNOWN"
  /\ (call.op = "evaluateRead" /\ call.kind = "return") =>
       call.value[1] =
         IF TierMatches("checkReadDangerous") THEN "BLOCK"
         ELSE IF TierMatches("checkReadSensitive") THEN "WARN"
         ELSE IF TierMatches("checkReadSafe") THEN "ALLOW"
         ELSE "UNKNOWN"
  /\ (call.op \in {"evaluateCommand", "evaluateRead"} /\ call.kind = "throw") =>
       call.value = NoCall.value

\* a path that the sensitive and the safe tier both match: the verdict is WARN
C19_Witness ==
  /\ call.op = "evaluateRead"
  /\ call.kind = "return"
  /\ call.value[1] = "WARN"
  /\ TierMatches("checkReadSafe")

(***************************************************************************)
(* C21: every pattern is matched without regard to letter case, in every   *)
(* collection and both match modes: whatever the options, the matched      *)
(* verdict of a check is the verdict the same compiled patterns give for   *)
(* every letter-case variant of its input.                                 *)
(***************************************************************************)
LowerOf(c) == CASE c = "A" -> "a" [] c = "B" -> "b" [] OTHER -> c

UpperOf(c) == CASE c = "a" -> "A" [] c = "b" -> "B" [] OTHER -> c

\* the strings that differ from s in letter case only
CaseVariants(s) ==
  {[i \in 1..Len(s) |-> IF i \in U THEN UpperOf(s[i]) ELSE LowerOf(s[i])] :
     U \in SUBSET (1..Len(s))}

\* the compiled entries of the last call's collection that would match chars
HitsOn(chars) ==
  {j \in 1..Len(CompiledOfCall) :
     /\ RegexTest(CompiledOfCall[j].regex, Tested(call.op, chars))
     /\ matchesPlatform(Deref(loaded, CompiledOfCall[j].pattern), PlatformUsed)}

C21_CaseInsensitive ==
  (StringCheck /\ call.kind = "return") =>
    \A v \in CaseVariants(call.input.chars) : call.matched <=> HitsOn(v) # {}

\* an upper-case input matched by a pattern written in lower case
C21_Witness ==
  /\ StringCheck
  /\ call.matched
  /\ call.input.chars = <<"B">>
  /\ Deref(loaded, call.pattern).pattern = <<"b">>

(***************************************************************************)
(* SpecEmpty: one check call, on a fresh process, with the empty string or *)
(* a string that normalizes to it, against a pattern whose regex accepts   *)
(* the empty string or does not.                                           *)
(***************************************************************************)
EmptyPatterns ==
  {Pat("Z1", <<>>, {}),
   Pat("Z2", <<"a", "|">>, {"windows"}),
   Pat("Z3", <<"^", "$">>, {"linux"}),
   Pat("Z4", <<"a">>, {})}

InitEmpty ==
  /\ \E p \in EmptyPatterns, m \in Modes : disk = DiskOf(AllInMode(m), <<p>>, {})
  /\ hostPlatform = "linux"
  /\ Fresh

EmptyInputs == {Str(<<>>), Str(<<" ">>), Str(<<"a">>), Number}

EmptyOptions == {NoOptions, Opt(Null), Opt("windows")}

EmptyBashDangerous ==
  FirstCall /\ \E c \in EmptyInputs, o \in EmptyOptions : checkBashDangerous(c, o)

EmptyBashSafe ==
  FirstCall /\ \E c \in EmptyInputs, o \in EmptyOptions : checkBashSafe(c, o)

EmptyReadDangerous ==
  FirstCall /\ \E c \in EmptyInputs, o \in EmptyOptions : checkReadDangerous(c, o)

EmptyReadSensitive ==
  FirstCall /\ \E c \in EmptyInputs, o \in EmptyOptions : checkReadSensitive(c, o)

EmptyReadSafe ==
  FirstCall /\ \E c \in EmptyInputs, o \in EmptyOptions : checkReadSafe(c, o)

NextEmpty ==
  \/ EmptyBashDangerous
  \/ EmptyBashSafe
  \/ EmptyReadDangerous
  \/ EmptyReadSensitive
  \/ EmptyReadSafe

SpecEmpty == InitEmpty /\ [][NextEmpty]_vars

(***************************************************************************)
(* C22: the empty string is a valid input of the five check functions: the *)
(* call loads and compiles its collection as for any other string and      *)
(* matches exactly when a pattern that applies to the platform has a regex *)
(* that accepts the empty string.                                          *)
(***************************************************************************)
\* the patterns of the last call's collection whose regex accepts chars
Accepting(chars) ==
  LET json == loaded[BoundFile(call.op)].json
  IN {i \in 1..Len(json.patterns) :
        LET src == AnchoredSource(json.patterns[i].pattern,
                                  json.match_mode = "fullmatch")
        IN /\ CompilesOK(src)
           /\ matchesPlatform(json.patterns[i], PlatformUsed)
           /\ RegexTest(src, chars)}

C22_EmptyStringEvaluated ==
  (StringCheck /\ call.input.chars = <<>>) =>
    /\ call.kind = "return"
    /\ call.reads = {BoundFile(call.op)}
    /\ Key(loaded[BoundFile(call.op)]) \in call.compiled
    /\ call.matched <=> Accepting(<<>>) # {}
    /\ call.matched => call.pattern.idx \in Accepting(<<>>)

\* the empty string matched by a regex that accepts it
C22_Witness ==
  /\ StringCheck
  /\ call.input.chars = <<>>
  /\ call.matched

(***************************************************************************)
(* C23: once meta and the five collections are loaded, each count of       *)
(* meta.stats is the length of the patterns of the collection it counts,   *)
(* and meta.total is the sum of the five counts.                           *)
(***************************************************************************)
\* the sum of the counts stats gives to the first n collections
RECURSIVE SumOfStats(_, _)
SumOfStats(stats, n) ==
  IF n = 0 THEN 0 ELSE SumOfStats(stats, n - 1) + stats[PreloadOrder[n]]

C23_MetaConsistent ==
  (\A f \in Files : loaded[f].gen # 0) =>
    LET meta == loaded["meta"].json
    IN /\ {"stats", "total"} \subseteq DOMAIN meta
       /\ \A f \in Collections : meta.stats[f] = Len(loaded[f].json.patterns)
       /\ meta.total = SumOfStats(meta.stats, Cardinality(Collections))

\* meta read after the five collections were loaded
C23_Witness ==
  /\ \A f \in Files : loaded[f].gen # 0
  /\ call.op = "get"
  /\ call.reads = {"meta"}

(***************************************************************************)
(* C24: preload() and the checks may be called in any order. Whichever     *)
(* call filled a cache entry, the entry is the same: a loaded collection   *)
(* is the whole parsed file, read once, and a compiled sequence holds an   *)
(* entry for every pattern of its collection that compiles; no call sees a *)
(* collection or a compiled sequence that is only partly built.            *)
(***************************************************************************)
\* the compiled sequence seq is the whole of what the object obj compiles to
WholeSequence(seq, obj) ==
  /\ {seq[j].pattern.idx : j \in 1..Len(seq)} = Compilable(obj)
  /\ Len(seq) = Cardinality(Compilable(obj))
  /\ \A j \in 1..Len(seq) :
       /\ seq[j].pattern = [file |-> obj.file, gen |-> obj.gen, idx |-> seq[j].pattern.idx]
       /\ seq[j].regex = AnchoredSource(obj.json.patterns[seq[j].pattern.idx].pattern,
                                        obj.json.match_mode = "fullmatch")

C24_AnyInterleaving ==
  /\ \A f \in Files :
       loaded[f].gen # 0 =>
         /\ loaded[f] = [file |-> f, gen |-> 1, json |-> disk[f].json]
         /\ disk[f].ok
         /\ parses[f] = 1
  /\ \A k \in DOMAIN regexCache :
       /\ k = Key(loaded[k[1]])
       /\ WholeSequence(regexCache[k], loaded[k[1]])
  /\ (StringCheck /\ call.kind = "return") =>
       /\ Key(loaded[BoundFile(call.op)]) \in DOMAIN regexCache
       /\ call.matched <=> Hits # {}

\* a preload that found some collections already loaded and compiled by checks
C24_Witness ==
  /\ call.op = "preload"
  /\ call.kind = "resolved"
  /\ call.reads # {}
  /\ call.compiled # {}
  /\ Cardinality(call.compiled) < Cardinality(Collections)

(***************************************************************************)
(* C25: the caches are written once. A loaded collection, a compiled       *)
(* sequence and the detected platform, once set, are left as they are by   *)
(* every check, property read and preload: none is overwritten, cleared or *)
(* invalidated.                                                            *)
(***************************************************************************)
C25_WriteOnce ==
  [][/\ \A f \in Files : loaded[f] # NoObject => loaded'[f] = loaded[f]
     /\ \A k \in DOMAIN regexCache :
          k \in DOMAIN regexCache' /\ regexCache'[k] = regexCache[k]
     /\ detectedPlatform # Undefined => detectedPlatform' = detectedPlatform]_vars

\* a preload made when every cache entry was already written
C25_Witness ==
  /\ call.op = "preload"
  /\ call.kind = "resolved"
  /\ call.reads = {}
  /\ call.compiled = {}
  /\ detectedPlatform # Undefined

(***************************************************************************)
(* C26: the anchoring transform. In a fullmatch collection a source that   *)
(* starts with '^' and ends with '$' is compiled unchanged; any other      *)
(* source loses one leading '^' and one trailing '$', when it has them,    *)
(* and is compiled as '^(?:' + remainder + ')$'. In a search collection    *)
(* the source is compiled as written.                                      *)
(***************************************************************************)
\* src has '^' as its first and '$' as its last character
BothAnchors(src) == Len(src) > 0 /\ src[1] = "^" /\ src[Len(src)] = "$"

\* src without one leading '^' and one trailing '$'
Remainder(src) ==
  LET a == IF Len(src) > 0 /\ src[1] = "^" THEN Tail(src) ELSE src
  IN IF Len(a) > 0 /\ a[Len(a)] = "$" THEN SubSeq(a, 1, Len(a) - 1) ELSE a

C26_AnchoringTransform ==
  \A k \in DOMAIN regexCache :
    \A j \in 1..Len(regexCache[k]) :
      LET json == loaded[k[1]].json
          src == json.patterns[regexCache[k][j].pattern.idx].pattern
          regex == regexCache[k][j].regex
      IN IF json.match_mode # "fullmatch" THEN regex = src
         ELSE IF BothAnchors(src) THEN regex = src
         ELSE regex = <<"^", "(", "?", ":">> \o Remainder(src) \o <<")", "$">>

\* a fullmatch source with a leading '^' only, compiled with the wrapping
C26_Witness ==
  \E k \in DOMAIN regexCache :
    /\ loaded[k[1]].json.match_mode = "fullmatch"
    /\ Len(regexCache[k]) = 1
    /\ loaded[k[1]].json.patterns[1].pattern = <<"^", "a">>
    /\ regexCache[k][1].regex = <<"^", "(", "?", ":", "a", ")", "$">>

(***************************************************************************)
(* SpecPair: one check function called again and again on one process,     *)
(* with an explicit platform or with the platform filter disabled.         *)
(***************************************************************************)
PairLists ==
  {<<Pat("T1", <<"a">>, {"linux", "macos"}), Pat("T2", <<"a">>, {"windows"})>>,
   <<Pat("T2", <<"a">>, {"windows"}), Pat("T4", <<"b">>, {}),
     Pat("T1", <<"a">>, {"linux", "macos"})>>,
   <<Pat("T3", <<"b">>, {"macos"}), Pat("T5", <<"a", "|", "b">>, {"linux"}),
     Pat("T4", <<"b">>, {})>>,
   <<Pat("T6", <<"(", "a">>, {}), Pat("T2", <<"a">>, {"windows"}),
     [id |-> "T7", pattern |-> <<"a">>]>>}

InitPair ==
  /\ \E l \in PairLists : disk = DiskOf(ShippedModes, l, {})
  /\ hostPlatform = "linux"
  /\ Fresh

PairInputs == {Str(<<"a">>), Str(<<"b">>)}

PairOptions == {Opt(Null)} \cup {Opt(p) : p \in Platforms}

\* the process has called no check function but op
Only(op) == call.op \in {"none", op}

PairBashDangerous ==
  Only("checkBashDangerous")
    /\ \E c \in PairInputs, o \in PairOptions : checkBashDangerous(c, o)

PairBashSafe ==
  Only("checkBashSafe") /\ \E c \in PairInputs, o \in PairOptions : checkBashSafe(c, o)

PairReadDangerous ==
  Only("checkReadDangerous")
    /\ \E c \in PairInputs, o \in PairOptions : checkReadDangerous(c, o)

PairReadSensitive ==
  Only("checkReadSensitive")
    /\ \E c \in PairInputs, o \in PairOptions : checkReadSensitive(c, o)

PairReadSafe ==
  Only("checkReadSafe") /\ \E c \in PairInputs, o \in PairOptions : checkReadSafe(c, o)

NextPair ==
  \/ PairBashDangerous
  \/ PairBashSafe
  \/ PairReadDangerous
  \/ PairReadSensitive
  \/ PairReadSafe

SpecPair == InitPair /\ [][NextPair]_vars

(***************************************************************************)
(* C27: disabling the platform filter can only add matches. For every      *)
(* entry point and input, when the check matches with an explicit platform *)
(* it also matches with platform null, and the pattern returned with       *)
(* platform null is at the same position in the collection or an earlier   *)
(* one.                                                                    *)
(***************************************************************************)
\* result b, got with platform null, covers result a, got with a platform given
Covers(b, a) == a.matched => (b.matched /\ b.pattern.idx <= a.pattern.idx)

C27_NullOnlyAddsMatches ==
  [][(/\ call.op \in CheckOps
      /\ call'.op = call.op
      /\ call'.input = call.input) =>
       /\ (call.options.platform \in Platforms /\ call'.options = Opt(Null)) =>
            Covers(call', call)
       /\ (call.options = Opt(Null) /\ call'.options.platform \in Platforms) =>
            Covers(call, call')]_vars

\* platform null returning a pattern that a platform given would have filtered out
C27_Witness ==
  /\ StringCheck
  /\ call.options = Opt(Null)
  /\ call.matched
  /\ call.pattern.idx = 1
  /\ ~matchesPlatform(Deref(loaded, call.pattern), "linux")
  /\ \E i \in 2..Len(loaded[BoundFile(call.op)].json.patterns) :
       matchesPlatform(loaded[BoundFile(call.op)].json.patterns[i], "linux")

(***************************************************************************)
(* C28: a load that throws changes none of what is cached. The collection  *)
(* that failed to load stays unloaded and gets no compiled sequence, every *)
(* collection loaded or compiled before stays cached as it was, and a      *)
(* check on a collection loaded before still gives the result it gives on  *)
(* a fresh process.                                                        *)
(***************************************************************************)
\* the step is a call in which loadPatterns threw
LoadFailed == call'.kind \in {"throw", "rejected"} /\ call'.error.wrapped

C28_FailedLoadChangesNothing ==
  [][/\ LoadFailed =>
          /\ loaded'[call'.error.filename] = NoObject
          /\ \A k \in DOMAIN regexCache' : k[1] # call'.error.filename
          /\ \A f \in Files : loaded[f] # NoObject => loaded'[f] = loaded[f]
          /\ \A k \in DOMAIN regexCache :
               k \in DOMAIN regexCache' /\ regexCache'[k] = regexCache[k]
     /\ (call'.op \in CheckOps /\ loaded[BoundFile(call'.op)] # NoObject) =>
          /\ call'.kind = "return"
          /\ <<call'.kind, call'.matched, call'.pattern.file, call'.pattern.idx,
               call'.error>> = FreshResult(call'.op, call'.input, call'.options)]_vars

\* a check whose load threw while another collection was loaded and compiled
C28_Witness ==
  /\ call.op \in CheckOps
  /\ call.kind = "throw"
  /\ loaded[BoundFile(call.op)] = NoObject
  /\ DOMAIN regexCache # {}

(***************************************************************************)
(* C29: a check call affects only its own collection. It loads and         *)
(* compiles at most the collection bound to its entry point, and leaves    *)
(* what is cached of the other four collections and of meta, loaded or     *)
(* compiled, exactly as it was.                                            *)
(***************************************************************************)
C29_OwnCollectionOnly ==
  [][call'.op \in CheckOps =>
       LET own == BoundFile(call'.op)
       IN /\ \A f \in Files \ {own} :
               loaded'[f] = loaded[f] /\ parses'[f] = parses[f]
          /\ call'.reads \subseteq {own}
          /\ call'.compiled \subseteq {Key(loaded'[own])}
          /\ \A k \in DOMAIN regexCache' : k[1] # own => k \in DOMAIN regexCache
          /\ \A k \in DOMAIN regexCache :
               k[1] # own => (k \in DOMAIN regexCache' /\ regexCache'[k] = regexCache[k])]_vars

\* a check that loaded and compiled its collection beside others cached before
C29_Witness ==
  /\ StringCheck
  /\ call.reads = {BoundFile(call.op)}
  /\ call.compiled = {Key(loaded[BoundFile(call.op)])}
  /\ \E f \in Files \ {BoundFile(call.op)} : loaded[f] # NoObject
  /\ \E f \in Files \ {BoundFile(call.op)} : loaded[f] = NoObject

(***************************************************************************)
(* C30: when the load of one of the five collections or of meta fails      *)
(* during preload(), the promise rejects with the wrapped load error, the  *)
(* call builds no compiled sequence, not even for the collections that     *)
(* loaded, and the collections loaded before the failure stay cached.      *)
(***************************************************************************)
\* the position in PreloadOrder of the file whose load fails in a preload from ld
FailingIndex(ld) ==
  LET bad == {i \in 1..Len(PreloadOrder) :
                ld[PreloadOrder[i]] = NoObject /\ ~disk[PreloadOrder[i]].ok}
  IN IF bad = {} THEN 0 ELSE CHOOSE i \in bad : \A j \in bad : i <= j

C30_PreloadFailure ==
  [][(call'.op = "preload" /\ FailingIndex(loaded) # 0) =>
       LET n == FailingIndex(loaded)
       IN /\ call'.kind = "rejected"
          /\ call'.error = [wrapped |-> TRUE, filename |-> PreloadOrder[n],
                            cause |-> disk[PreloadOrder[n]].cause]
          /\ regexCache' = regexCache
          /\ call'.compiled = {}
          /\ \A i \in 1..(n - 1) :
               LET f == PreloadOrder[i]
               IN /\ loaded'[f] # NoObject
                  /\ loaded'[f].json = disk[f].json
                  /\ loaded[f] # NoObject => loaded'[f] = loaded[f]
          /\ \A i \in n..Len(PreloadOrder) : loaded'[PreloadOrder[i]] = loaded[PreloadOrder[i]]]_vars

\* a rejected preload that loaded collections and left them without compiled sequences
C30_Witness ==
  /\ call.op = "preload"
  /\ call.kind = "rejected"
  /\ Cardinality(call.reads) > 2
  /\ \E f \in call.reads : loaded[f] # NoObject /\ Key(loaded[f]) \notin DOMAIN regexCache

====
